---- MODULE Spec2Model ----
(***************************************************************************)
(* A model of snutils: the coordinate-list matrix functions of             *)
(* snutils/mm.py and the nucleus-identifier parser of snutils/nucleus.py.  *)
(*                                                                         *)
(* An identifier is a sequence of one-character strings, so that the text  *)
(* conversions of the code (splitting on '-', the column type inference of *)
(* read_csv) are computed and not assumed.  A table (DataFrame with the    *)
(* columns feature, barcode, count) is a sequence of records.              *)
(***************************************************************************)
EXTENDS Integers, Sequences, FiniteSets

VARIABLES mtx, features, barcodes, files, op, inp, res

vars == <<mtx, features, barcodes, files, op, inp, res>>

(***************************************************************************)
(* Bounds of the model.                                                    *)
(***************************************************************************)
MaxRows == 2
MaxCount == 2
MaxListLen == 2
MaxNuclei == 2
MaxFields == 5

(***************************************************************************)
(* Generic helpers.                                                        *)
(***************************************************************************)
Range(s) == {s[i] : i \in 1..Len(s)}

SeqsUpTo(S, n) == UNION {[1..k -> S] : k \in 0..n}

RECURSIVE SumSeq(_)
SumSeq(s) == IF s = <<>> THEN 0 ELSE Head(s) + SumSeq(Tail(s))

RECURSIVE Flatten(_)
Flatten(ss) == IF ss = <<>> THEN <<>> ELSE Head(ss) \o Flatten(Tail(ss))

Counts(t) == [i \in 1..Len(t) |-> t[i].count]

\* the rows of table t that satisfy the row predicate, in table order
RECURSIVE SelectRows(_, _, _)
SelectRows(t, fs, bs) ==
    IF t = <<>> THEN <<>>
    ELSE (IF Head(t).feature \in fs /\ Head(t).barcode \in bs
          THEN <<Head(t)>> ELSE <<>>) \o SelectRows(Tail(t), fs, bs)

(***************************************************************************)
(* Identifiers and their ordering (Python compares str by code point).     *)
(***************************************************************************)
Alphabet == <<"-", "1", "7", "F", "b">>
Digits == {"1", "7"}

CodePoint(c) == CHOOSE i \in 1..Len(Alphabet) : Alphabet[i] = c

RECURSIVE StrLess(_, _)
StrLess(s, t) ==
    IF t = <<>> THEN FALSE
    ELSE IF s = <<>> THEN TRUE
    ELSE IF Head(s) = Head(t) THEN StrLess(Tail(s), Tail(t))
    ELSE CodePoint(Head(s)) < CodePoint(Head(t))

F1 == <<"F", "1">>
F7 == <<"F", "7">>
N7 == <<"7">>
b1 == <<"b", "1">>
b7 == <<"b", "7">>

(***************************************************************************)
(* _validate_mm                                                            *)
(***************************************************************************)
\* pd.Series(l).value_counts(): each distinct value with its number of uses
ValueCounts(l) == [v \in Range(l) |-> Cardinality({i \in 1..Len(l) : l[i] = v})]

\* value_counts().max() == 1; the max of an empty Series is NaN, and
\* NaN == 1 is False
MaxIsOne(vc) == DOMAIN vc # {} /\ \A v \in DOMAIN vc : vc[v] = 1

AllIsIn(col, l) == \A i \in 1..Len(col) : col[i] \in Range(l)

FeatureCol(df) == [i \in 1..Len(df) |-> df[i].feature]
BarcodeCol(df) == [i \in 1..Len(df) |-> df[i].barcode]

\* TRUE where _validate_mm returns True, FALSE where an assert fails
ValidateMM(df, fl, bl) ==
    /\ MaxIsOne(ValueCounts(fl))
    /\ MaxIsOne(ValueCounts(bl))
    /\ AllIsIn(FeatureCol(df), fl)
    /\ AllIsIn(BarcodeCol(df), bl)

AssertionError == [ok |-> FALSE, err |-> "AssertionError"]
TypeError == [ok |-> FALSE, err |-> "TypeError"]
ValueError == [ok |-> FALSE, err |-> "ValueError"]
EmptyDataError == [ok |-> FALSE, err |-> "EmptyDataError"]
KeyError == [ok |-> FALSE, err |-> "KeyError"]

ParserError == [ok |-> FALSE, err |-> "ParserError"]

Triple(df, fl, bl) == [ok |-> TRUE, mtx |-> df, features |-> fl, barcodes |-> bl]

Row(f, b, c) == [feature |-> f, barcode |-> b, count |-> c]

(***************************************************************************)
(* Text files.  A line of an identifier file is its characters; a line of  *)
(* the matrix file is its whitespace-separated integer fields, or a line   *)
(* that starts with '%'.                                                   *)
(***************************************************************************)
TAB == "\t"

\* s.split(sep): the fields of s between the separators
RECURSIVE SplitAcc(_, _, _)
SplitAcc(s, sep, cur) ==
    IF s = <<>> THEN <<cur>>
    ELSE IF Head(s) = sep THEN <<cur>> \o SplitAcc(Tail(s), sep, <<>>)
    ELSE SplitAcc(Tail(s), sep, Append(cur, Head(s)))

Split(s, sep) == SplitAcc(s, sep, <<>>)

\* sep.join(parts)
RECURSIVE Join(_, _)
Join(parts, sep) ==
    IF parts = <<>> THEN <<>>
    ELSE IF Len(parts) = 1 THEN parts[1]
    ELSE parts[1] \o <<sep>> \o Join(Tail(parts), sep)

IsDigits(s) == s # <<>> /\ \A i \in 1..Len(s) : s[i] \in Digits

PctLine == [pct |-> TRUE, fields |-> <<>>]
DataLine(a, b, c) == [pct |-> FALSE, fields |-> <<a, b, c>>]

\* DataFrame({'x': l}).to_csv(index=False, header=False): one line per
\* identifier; no character of Alphabet needs quoting
ToCsv(l) == [i \in 1..Len(l) |-> l[i]]

\* pd.read_csv(file, sep='\t', header=None).apply(lambda x: '\t'.join(x), axis=1)
\* The first line fixes the number of columns; a column whose values are all
\* digits is read as integers, a missing or empty value as NaN, and
\* '\t'.join raises TypeError on a value that is not a str.
ReadIdFile(lines) ==
    IF lines = <<>> THEN EmptyDataError
    ELSE LET rows == [i \in 1..Len(lines) |-> Split(lines[i], TAB)]
             ncol == Len(rows[1])
             Present(i, j) == Len(rows[i]) >= j /\ rows[i][j] # <<>>
             Numeric(j) == \A i \in 1..Len(rows) : Present(i, j) => IsDigits(rows[i][j])
         IN  IF \E i \in 1..Len(rows) : Len(rows[i]) > ncol THEN ParserError
             ELSE IF \E i \in 1..Len(rows), j \in 1..ncol : ~Present(i, j) \/ Numeric(j)
                  THEN TypeError
             ELSE [ok |-> TRUE, ids |-> [i \in 1..Len(rows) |-> Join(rows[i], TAB)]]

(***************************************************************************)
(* write_mm                                                                *)
(***************************************************************************)
\* {v: k for k, v in dict(enumerate(l, 1)).items()}: a value maps to its
\* position, a repeated value to its last one
ToIdx(l) ==
    [v \in Range(l) |-> CHOOSE k \in 1..Len(l) :
                           l[k] = v /\ \A j \in (k + 1)..Len(l) : l[j] # v]

WriteMM(df, fl, bl) ==
    IF ~ValidateMM(df, fl, bl) THEN AssertionError
    ELSE LET feature_to_idx == ToIdx(fl)
             barcode_to_idx == ToIdx(bl)
         IN  [ok |-> TRUE,
              matrix |-> <<PctLine, PctLine, DataLine(Len(fl), Len(bl), Len(df))>>
                         \o [i \in 1..Len(df) |->
                                DataLine(feature_to_idx[df[i].feature],
                                         barcode_to_idx[df[i].barcode],
                                         df[i].count)],
              features |-> ToCsv(fl),
              barcodes |-> ToCsv(bl)]

(***************************************************************************)
(* read_mm                                                                 *)
(***************************************************************************)
SkipRows == 3

\* Series.map(dict): NaN for an index that is no key of the dict
NaN == <<"NaN">>
MapIdx(idx, ids) == IF idx \in 1..Len(ids) THEN ids[idx] ELSE NaN

ReadMM(matrix_file, features_file, barcodes_file) ==
    LET body == SubSeq(matrix_file, SkipRows + 1, Len(matrix_file))
        fr == ReadIdFile(features_file)
        br == ReadIdFile(barcodes_file)
    IN  IF \E i \in 1..Len(body) : body[i].pct \/ Len(body[i].fields) # 3
        THEN ParserError
        ELSE IF ~fr.ok THEN fr
        ELSE IF ~br.ok THEN br
        ELSE LET df == [i \in 1..Len(body) |->
                          Row(MapIdx(body[i].fields[1], fr.ids),
                              MapIdx(body[i].fields[2], br.ids),
                              body[i].fields[3])]
             IN  IF ~ValidateMM(df, fr.ids, br.ids) THEN AssertionError
                 ELSE Triple(df, fr.ids, br.ids)

(***************************************************************************)
(* get_total_counts_mm                                                     *)
(***************************************************************************)
\* the loop over the lines of the matrix file: line_count counts the lines
\* that do not start with '%', and the first of them is the dimensions line
RECURSIVE CountLines(_, _, _, _, _, _)
CountLines(lines, line_count, fids, bids, fc, bc) ==
    IF lines = <<>> THEN [ok |-> TRUE, feature_count |-> fc, barcode_count |-> bc]
    ELSE IF Head(lines).pct
         THEN CountLines(Tail(lines), line_count, fids, bids, fc, bc)
    ELSE IF line_count + 1 = 1
         THEN CountLines(Tail(lines), line_count + 1, fids, bids, fc, bc)
    ELSE LET fld == Head(lines).fields
         IN  IF Len(fld) # 3 THEN ValueError
             ELSE IF fld[1] \notin 1..Len(fids) \/ fld[2] \notin 1..Len(bids)
                  THEN KeyError
             ELSE CountLines(Tail(lines), line_count + 1, fids, bids,
                             [fc EXCEPT ![fids[fld[1]]] = @ + fld[3]],
                             [bc EXCEPT ![bids[fld[2]]] = @ + fld[3]])

\* a variant of GetTotalCountsMM: the dimensions line is counted as a record
GetTotalCountsWithDimensions(matrix_file, features_file, barcodes_file) ==
    LET fr == ReadIdFile(features_file)
        br == ReadIdFile(barcodes_file)
    IN  IF ~fr.ok THEN fr
        ELSE IF ~br.ok THEN br
        ELSE CountLines(matrix_file, 1, fr.ids, br.ids,
                        [v \in Range(fr.ids) |-> 0], [v \in Range(br.ids) |-> 0])

GetTotalCountsMM(matrix_file, features_file, barcodes_file) ==
    LET fr == ReadIdFile(features_file)
        br == ReadIdFile(barcodes_file)
    IN  IF ~fr.ok THEN fr
        ELSE IF ~br.ok THEN br
        ELSE CountLines(matrix_file, 0, fr.ids, br.ids,
                        [v \in Range(fr.ids) |-> 0], [v \in Range(br.ids) |-> 0])

(***************************************************************************)
(* remap_features                                                          *)
(***************************************************************************)
PairLess(p, q) == StrLess(p[1], q[1]) \/ (p[1] = q[1] /\ StrLess(p[2], q[2]))

RECURSIVE SortPairs(_)
SortPairs(S) ==
    IF S = {} THEN <<>>
    ELSE LET lo == CHOOSE x \in S : \A y \in S \ {x} : PairLess(x, y)
         IN  <<lo>> \o SortPairs(S \ {lo})

\* a variant of GroupBySum: each key keeps its first count (first() for sum())
GroupByFirst(df) ==
    LET keys == SortPairs({<<df[i].barcode, df[i].feature>> : i \in 1..Len(df)})
    IN  [k \in 1..Len(keys) |->
           Row(keys[k][2], keys[k][1],
               SelectRows(df, {keys[k][2]}, {keys[k][1]})[1].count)]

\* df.groupby(['barcode', 'feature']).sum().reset_index(): one row per key,
\* the keys sorted, the count the sum over the key's rows
GroupBySum(df) ==
    LET keys == SortPairs({<<df[i].barcode, df[i].feature>> : i \in 1..Len(df)})
    IN  [k \in 1..Len(keys) |->
           Row(keys[k][2], keys[k][1],
               SumSeq(Counts(SelectRows(df, {keys[k][2]}, {keys[k][1]}))))]

\* Series.unique(): the values in order of first appearance
RECURSIVE Unique(_)
Unique(l) ==
    IF l = <<>> THEN <<>>
    ELSE LET u == Unique(SubSeq(l, 1, Len(l) - 1))
         IN  IF l[Len(l)] \in Range(u) THEN u ELSE Append(u, l[Len(l)])

RemapFeatures(df, fl, bl, old_feature_to_new_feature) ==
    IF ~ValidateMM(df, fl, bl) THEN AssertionError
    ELSE IF \E i \in 1..Len(fl) : fl[i] \notin DOMAIN old_feature_to_new_feature
         THEN AssertionError
    ELSE LET mapped == [i \in 1..Len(df) |->
                          Row(old_feature_to_new_feature[df[i].feature],
                              df[i].barcode, df[i].count)]
             new_df == GroupBySum(mapped)
             new_features == Unique([i \in 1..Len(fl) |->
                                       old_feature_to_new_feature[fl[i]]])
         IN  IF ~ValidateMM(new_df, new_features, bl) THEN AssertionError
             ELSE Triple(new_df, new_features, bl)

(***************************************************************************)
(* mm_merge                                                                *)
(***************************************************************************)
\* a variant of MMMerge: the Feature List of the last sample is returned
MMMergeLastFeatures(matrix_list, feature_list, barcode_list) ==
    IF \/ Len(matrix_list) # Len(feature_list)
       \/ Len(matrix_list) # Len(barcode_list)
       \/ ~(Len(matrix_list) > 0)
    THEN AssertionError
    ELSE IF Len(matrix_list) = 1
         THEN Triple(matrix_list[1], feature_list[1], barcode_list[1])
    ELSE IF \E i \in 2..Len(feature_list) :
               Range(feature_list[1]) # Range(feature_list[i])
         THEN AssertionError
    ELSE IF Cardinality(UNION {Range(barcode_list[i]) : i \in 1..Len(barcode_list)})
               # SumSeq([i \in 1..Len(barcode_list) |-> Len(barcode_list[i])])
         THEN AssertionError
    ELSE Triple(Flatten(matrix_list), feature_list[Len(feature_list)],
                Flatten(barcode_list))

\* a variant of MMMerge: the Barcode Lists are not compared
MMMergeOverlapping(matrix_list, feature_list, barcode_list) ==
    IF \/ Len(matrix_list) # Len(feature_list)
       \/ Len(matrix_list) # Len(barcode_list)
       \/ ~(Len(matrix_list) > 0)
    THEN AssertionError
    ELSE IF Len(matrix_list) = 1
         THEN Triple(matrix_list[1], feature_list[1], barcode_list[1])
    ELSE IF \E i \in 2..Len(feature_list) :
               Range(feature_list[1]) # Range(feature_list[i])
         THEN AssertionError
    ELSE Triple(Flatten(matrix_list), feature_list[1], Flatten(barcode_list))

MMMerge(matrix_list, feature_list, barcode_list) ==
    IF \/ Len(matrix_list) # Len(feature_list)
       \/ Len(matrix_list) # Len(barcode_list)
       \/ ~(Len(matrix_list) > 0)
    THEN AssertionError
    ELSE IF Len(matrix_list) = 1
         THEN Triple(matrix_list[1], feature_list[1], barcode_list[1])
    ELSE IF \E i \in 2..Len(feature_list) :
               Range(feature_list[1]) # Range(feature_list[i])
         THEN AssertionError
    ELSE IF Cardinality(UNION {Range(barcode_list[i]) : i \in 1..Len(barcode_list)})
               # SumSeq([i \in 1..Len(barcode_list) |-> Len(barcode_list[i])])
         THEN AssertionError
    ELSE Triple(Flatten(matrix_list), feature_list[1], Flatten(barcode_list))

(***************************************************************************)
(* mm_to_wide                                                              *)
(***************************************************************************)
None == [none |-> TRUE]
Some(l) == [none |-> FALSE, val |-> l]

MMToWide(df, fl, bl, keep_features, keep_barcodes) ==
    IF ~ValidateMM(df, fl, bl) THEN AssertionError
    ELSE LET kf == IF keep_features.none THEN fl ELSE keep_features.val
             kb == IF keep_barcodes.none THEN bl ELSE keep_barcodes.val
         IN  IF ~AllIsIn(kf, fl) \/ ~AllIsIn(kb, bl) THEN AssertionError
             ELSE LET \* [[i, j] for i in keep_barcodes for j in keep_features]
                      tmp == [k \in 1..(Len(kb) * Len(kf)) |->
                                <<kb[((k - 1) \div Len(kf)) + 1],
                                  kf[((k - 1) % Len(kf)) + 1]>>]
                      right == SelectRows(df, Range(kf), Range(bl))
                      \* the left merge, then fillna(0)
                      merged == Flatten([k \in 1..Len(tmp) |->
                                  LET hit == SelectRows(right, {tmp[k][2]}, {tmp[k][1]})
                                  IN  IF hit = <<>>
                                      THEN <<Row(tmp[k][2], tmp[k][1], 0)>>
                                      ELSE hit])
                      cell(i) == <<merged[i].barcode, merged[i].feature>>
                  IN  \* pivot: "Index contains duplicate entries, cannot reshape"
                      IF \E i, j \in 1..Len(merged) : i # j /\ cell(i) = cell(j)
                      THEN ValueError
                      ELSE [ok |-> TRUE,
                            wide |-> [c \in {cell(i) : i \in 1..Len(merged)} |->
                                        merged[CHOOSE i \in 1..Len(merged) :
                                                 cell(i) = c].count]]

(***************************************************************************)
(* parse_nucleus                                                           *)
(***************************************************************************)
DASH == "-"
NoneCell == <<"None">>

Str(s) == [kind |-> "str", val |-> s]
List(l) == [kind |-> "list", val |-> l]
Series(l) == [kind |-> "Series", val |-> l]
Other == [kind |-> "other", val |-> <<>>]

\* DataFrame of rows of different lengths: as many columns as the longest
\* row, the shorter rows filled with None
Cell(r, j) == IF j <= Len(r) THEN r[j] ELSE NoneCell

NumColumns(rows) ==
    IF rows = <<>> THEN 0
    ELSE CHOOSE n \in {Len(rows[i]) : i \in 1..Len(rows)} :
           \A i \in 1..Len(rows) : Len(rows[i]) <= n

ParseNucleus(n) ==
    IF n.kind = "str"
    THEN LET p == Split(n.val, DASH)
         IN  IF Len(p) # 4 THEN ValueError
             ELSE [ok |-> TRUE,
                   rows |-> <<[sample |-> p[1], genome |-> p[2],
                               modality |-> p[3], barcode |-> p[4]]>>]
    ELSE IF n.kind \in {"Series", "list"}
    THEN LET rows == [i \in 1..Len(n.val) |-> Split(n.val[i], DASH)]
         IN  IF ~(NumColumns(rows) = 4) THEN ValueError
             ELSE [ok |-> TRUE,
                   rows |-> [i \in 1..Len(rows) |->
                               [sample |-> Cell(rows[i], 1), genome |-> Cell(rows[i], 2),
                                modality |-> Cell(rows[i], 3), barcode |-> Cell(rows[i], 4)]]]
    ELSE TypeError

(***************************************************************************)
(* The validity contract of a triple, as the specification states it.      *)
(***************************************************************************)
NoDup(l) == \A i, j \in 1..Len(l) : l[i] = l[j] => i = j

\* the four clauses of the validity contract
FourClauses(df, fl, bl) ==
    /\ \A i \in 1..Len(df) : df[i].feature \in Range(fl)
    /\ \A i \in 1..Len(df) : df[i].barcode \in Range(bl)
    /\ NoDup(fl)
    /\ NoDup(bl)

(***************************************************************************)
(* The inputs the model explores.                                          *)
(***************************************************************************)
FeatureIds == {F1, F7}
NumericFeatureIds == {F1, N7}
BarcodeIds == {b1, b7}
CountValues == 1..MaxCount

Rows(FIds, BIds) == {Row(f, b, c) : f \in FIds, b \in BIds, c \in CountValues}

\* every triple, valid or not: lists may be empty or hold a duplicate
AnyTriples(FIds, BIds, n) ==
    {Triple(df, fl, bl) : df \in SeqsUpTo(Rows(FIds, BIds), n),
                          fl \in SeqsUpTo(FIds, MaxListLen),
                          bl \in SeqsUpTo(BIds, MaxListLen)}

\* the triples that pass _validate_mm, as read_mm returns them
ValidTriples(FIds, BIds, n) ==
    {t \in AnyTriples(FIds, BIds, n) : ValidateMM(t.mtx, t.features, t.barcodes)}

\* the other samples handed to mm_merge together with the held triple:
\* validated triples of one barcode and at most one record
OtherSamples ==
    {t \in ValidTriples(FeatureIds, BarcodeIds, 1) :
        Len(t.barcodes) = 1 /\ \A i \in 1..Len(t.mtx) : t.mtx[i].count = 1}

\* dicts from old to new feature
Remappings == UNION {[D -> FeatureIds] : D \in SUBSET FeatureIds}

\* keep_features / keep_barcodes: left out, or a list without repetition
KeepLists(Ids) ==
    {None} \cup {Some(l) : l \in {k \in SeqsUpTo(Ids, MaxListLen) :
                                    k # <<>> /\ Cardinality(Range(k)) = Len(k)}}

NoFiles == [ok |-> FALSE, err |-> "no files"]
NoInput == [none |-> TRUE]
NoResult == [ok |-> FALSE, err |-> "not called"]

Held == Triple(mtx, features, barcodes)

(***************************************************************************)
(* The calls.  The caller holds one triple; a call that returns a triple   *)
(* leaves the caller holding the returned one.  A call is made when no     *)
(* result is pending, and Return is the caller taking the result.          *)
(***************************************************************************)
Idle == op = "idle"

Return ==
    /\ ~Idle
    /\ op' = "idle"
    /\ inp' = NoInput
    /\ res' = NoResult
    /\ UNCHANGED <<mtx, features, barcodes, files>>

Hold(r) ==
    /\ mtx' = IF r.ok THEN r.mtx ELSE mtx
    /\ features' = IF r.ok THEN r.features ELSE features
    /\ barcodes' = IF r.ok THEN r.barcodes ELSE barcodes

CallValidate ==
    /\ Idle
    /\ op' = "validate"
    /\ inp' = Held
    /\ res' = [ok |-> ValidateMM(mtx, features, barcodes)]
    /\ UNCHANGED <<mtx, features, barcodes, files>>

CallWrite ==
    /\ Idle
    /\ op' = "write"
    /\ inp' = Held
    /\ res' = WriteMM(mtx, features, barcodes)
    /\ files' = IF res'.ok THEN res' ELSE files
    /\ UNCHANGED <<mtx, features, barcodes>>

CallRead ==
    /\ Idle
    /\ files.ok
    /\ op' = "read"
    /\ inp' = files
    /\ res' = ReadMM(files.matrix, files.features, files.barcodes)
    /\ UNCHANGED <<mtx, features, barcodes, files>>

\* the matrix file with one more comment line after line k
WithComment(m, k) == SubSeq(m, 1, k) \o <<PctLine>> \o SubSeq(m, k + 1, Len(m))

CallTotals ==
    /\ Idle
    /\ files.ok
    /\ \E m \in {files.matrix} \cup {WithComment(files.matrix, k) : k \in 0..Len(files.matrix)} :
         /\ op' = "totals"
         /\ inp' = [files EXCEPT !.matrix = m]
         /\ res' = GetTotalCountsMM(m, files.features, files.barcodes)
    /\ UNCHANGED <<mtx, features, barcodes, files>>

CallRemap ==
    \E m \in Remappings :
        /\ Idle
        /\ op' = "remap"
        /\ inp' = [mtx |-> mtx, features |-> features, barcodes |-> barcodes,
                   remapping |-> m]
        /\ res' = RemapFeatures(mtx, features, barcodes, m)
        /\ Hold(res')
        /\ UNCHANGED files

MergeCall(ts, fdrop, bdrop) ==
    LET ml == [i \in 1..Len(ts) |-> ts[i].mtx]
        fls == [i \in 1..(Len(ts) - fdrop) |-> ts[i].features]
        bls == [i \in 1..(Len(ts) - bdrop) |-> ts[i].barcodes]
    IN  /\ Idle
        /\ SumSeq([i \in 1..Len(ml) |-> Len(ml[i])]) <= MaxRows
        /\ op' = "merge"
        /\ inp' = [matrix_list |-> ml, feature_list |-> fls, barcode_list |-> bls]
        /\ res' = MMMerge(ml, fls, bls)
        /\ Hold(res')
        /\ UNCHANGED files

\* mm_merge on the held triple alone or with another sample, the three
\* lists of the same length
CallMerge ==
    \E o \in OtherSamples : \E ts \in {<<Held>>, <<Held, o>>, <<o, Held>>} :
        MergeCall(ts, 0, 0)

\* mm_merge on lists of different lengths, or on no sample at all
CallMergeShape ==
    \E o \in {t \in OtherSamples : t.mtx = <<>>} :
      \E ts \in {<<>>, <<Held>>, <<Held, o>>} :
        \E fdrop \in {0, 1}, bdrop \in {0, 1} :
            /\ fdrop <= Len(ts) /\ bdrop <= Len(ts)
            /\ ts # <<>> => fdrop + bdrop > 0
            /\ MergeCall(ts, fdrop, bdrop)

CallToWide ==
    \E kf \in KeepLists(FeatureIds), kb \in KeepLists(BarcodeIds) :
        /\ Idle
        /\ op' = "wide"
        /\ inp' = [mtx |-> mtx, features |-> features, barcodes |-> barcodes,
                   keep_features |-> kf, keep_barcodes |-> kb]
        /\ res' = MMToWide(mtx, features, barcodes, kf, kb)
        /\ UNCHANGED <<mtx, features, barcodes, files>>

(***************************************************************************)
(* Spec: any triple a caller can assemble, and every in-memory operation.  *)
(***************************************************************************)
InitWith(T) ==
    /\ \E t \in T : mtx = t.mtx /\ features = t.features /\ barcodes = t.barcodes
    /\ files = NoFiles
    /\ op = "idle"
    /\ inp = NoInput
    /\ res = NoResult

Init == InitWith(AnyTriples(FeatureIds, BarcodeIds, MaxRows))

Next ==
    \/ CallValidate \/ CallWrite \/ CallRemap \/ CallMerge \/ CallMergeShape
    \/ CallToWide \/ Return

Spec == Init /\ [][Next]_vars

(***************************************************************************)
(* SpecValid: validated triples through remap_features and mm_merge.       *)
(***************************************************************************)
InitValid == InitWith(ValidTriples(FeatureIds, BarcodeIds, MaxRows))

NextValid == CallRemap \/ CallMerge \/ Return

SpecValid == InitValid /\ [][NextValid]_vars

(***************************************************************************)
(* SpecFiles: a triple written to its three files, and the files read.     *)
(***************************************************************************)
InitFiles ==
    InitWith({t \in AnyTriples(NumericFeatureIds, BarcodeIds, MaxRows) :
                FourClauses(t.mtx, t.features, t.barcodes)})

NextFiles == CallWrite \/ CallRead \/ CallTotals \/ Return

SpecFiles == InitFiles /\ [][NextFiles]_vars

(***************************************************************************)
(* SpecNucleus: parse_nucleus on strings, lists and Series.                *)
(***************************************************************************)
FieldValues == {<<"b">>, <<"1", "7">>}

NucleusStrs == {Join(fs, DASH) : fs \in SeqsUpTo(FieldValues, MaxFields) \ {<<>>}}

ParseCall(n) ==
    /\ Idle
    /\ op' = "parse_nucleus"
    /\ inp' = n
    /\ res' = ParseNucleus(n)
    /\ UNCHANGED <<mtx, features, barcodes, files>>

CallParseStr == \E s \in NucleusStrs \cup {<<>>} : ParseCall(Str(s))

CallParseList == \E l \in SeqsUpTo(NucleusStrs, MaxNuclei) : ParseCall(List(l))

CallParseSeries == \E l \in SeqsUpTo(NucleusStrs, MaxNuclei) : ParseCall(Series(l))

CallParseOther == ParseCall(Other)

InitNucleus == InitWith({Triple(<<>>, <<>>, <<>>)})

NextNucleus ==
    CallParseStr \/ CallParseList \/ CallParseSeries \/ CallParseOther \/ Return

SpecNucleus == InitNucleus /\ [][NextNucleus]_vars

(***************************************************************************)
(* The properties.                                                         *)
(***************************************************************************)
InputClauses == FourClauses(inp.mtx, inp.features, inp.barcodes)

\* C1: _validate_mm returns true exactly when the four clauses hold, also
\* for an empty table, an empty Feature List or an empty Barcode List.
C1_ValidateIffFourClauses ==
    op = "validate" => (res.ok <=> InputClauses)

\* the three preconditions of MergeMatrices
EqualLengths(i) ==
    /\ Len(i.matrix_list) = Len(i.feature_list)
    /\ Len(i.matrix_list) = Len(i.barcode_list)
    /\ Len(i.matrix_list) >= 1

SameFeatureSets(i) ==
    \A j, k \in 1..Len(i.feature_list) :
        Range(i.feature_list[j]) = Range(i.feature_list[k])

\* no barcode identifier appears more than once across the inputs
BarcodesAppearOnce(i) ==
    \A j, k \in 1..Len(i.barcode_list) :
        \A x \in 1..Len(i.barcode_list[j]), y \in 1..Len(i.barcode_list[k]) :
            i.barcode_list[j][x] = i.barcode_list[k][y] => (j = k /\ x = y)

\* C4: mm_merge fails on every input of n >= 1 triples that violates one of
\* the three preconditions.
C4_MergeRejectsViolations ==
    (op = "merge" /\ Len(inp.matrix_list) >= 1
       /\ ~(EqualLengths(inp) /\ SameFeatureSets(inp) /\ BarcodesAppearOnce(inp)))
    => ~res.ok

KeptFeatures == IF inp.keep_features.none THEN inp.features ELSE inp.keep_features.val
KeptBarcodes == IF inp.keep_barcodes.none THEN inp.barcodes ELSE inp.keep_barcodes.val

\* C6: for every valid triple, whose table may hold several records of one
\* (feature, barcode) pair, and keep lists of members of the full lists,
\* mm_to_wide returns a table with exactly one cell for each pair of
\* keep_barcodes x keep_features, holding the matching record's count or 0.
\* (Stated for lists that are not empty.)
C6_DensifyEveryValidTriple ==
    (op = "wide" /\ InputClauses /\ inp.features # <<>> /\ inp.barcodes # <<>>
       /\ Range(KeptFeatures) \subseteq Range(inp.features)
       /\ Range(KeptBarcodes) \subseteq Range(inp.barcodes))
    => /\ res.ok
       /\ DOMAIN res.wide = Range(KeptBarcodes) \X Range(KeptFeatures)
       /\ \A c \in DOMAIN res.wide :
            \/ \E i \in 1..Len(inp.mtx) :
                  /\ inp.mtx[i].barcode = c[1] /\ inp.mtx[i].feature = c[2]
                  /\ res.wide[c] = inp.mtx[i].count
            \/ /\ res.wide[c] = 0
               /\ \A i \in 1..Len(inp.mtx) :
                    ~(inp.mtx[i].barcode = c[1] /\ inp.mtx[i].feature = c[2])

\* the triples a call was given
InputTriples ==
    IF op = "merge"
    THEN {Triple(inp.matrix_list[i], inp.feature_list[i], inp.barcode_list[i]) :
            i \in 1..Len(inp.matrix_list)}
    ELSE {Triple(inp.mtx, inp.features, inp.barcodes)}

\* C8: write_mm, remap_features, mm_merge and mm_to_wide fail on entry when
\* an input triple violates one of the four clauses.
C8_NoCallProceedsOnInvalid ==
    (/\ op \in {"write", "remap", "wide"} \/ (op = "merge" /\ EqualLengths(inp))
     /\ \E t \in InputTriples : ~FourClauses(t.mtx, t.features, t.barcodes))
    => ~res.ok

\* the number of '-'-delimited fields of an identifier: one more than its
\* number of delimiters
NumFields(s) == 1 + Cardinality({i \in 1..Len(s) : s[i] = DASH})

\* C9: parse_nucleus fails on every identifier whose number of fields is
\* not 4, parsed alone or as an element of a list or Series, and returns
\* the four fields of a single identifier that has 4.
C9_ParseRejectsWrongFieldCount ==
    op = "parse_nucleus" =>
        /\ inp.kind = "str" =>
             IF NumFields(inp.val) # 4 THEN ~res.ok
             ELSE /\ res.ok
                  /\ Join(<<res.rows[1].sample, res.rows[1].genome,
                            res.rows[1].modality, res.rows[1].barcode>>, DASH) = inp.val
        /\ (inp.kind \in {"list", "Series"}
              /\ \E i \in 1..Len(inp.val) : NumFields(inp.val[i]) # 4)
           => ~res.ok

\* the number of times record r occurs in table t
Occurrences(t, r) == Cardinality({i \in 1..Len(t) : t[i] = r})

SameMultiset(t, u) ==
    \A r \in Range(t) \cup Range(u) : Occurrences(t, r) = Occurrences(u, r)

\* C2: read_mm on the three files write_mm produced for a valid triple
\* returns the same multiset of records and the same two lists, in order.
C2_ReadOfWriteRoundTrip ==
    (op = "read" /\ FourClauses(mtx, features, barcodes))
    => /\ res.ok
       /\ SameMultiset(res.mtx, mtx)
       /\ res.features = features
       /\ res.barcodes = barcodes

RECURSIVE SumOver(_, _)
SumOver(S, f) ==
    IF S = {} THEN 0
    ELSE LET x == CHOOSE y \in S : TRUE IN f[x] + SumOver(S \ {x}, f)

\* the record lines of a matrix file: the lines that do not start with '%',
\* but for the first of them, the dimensions line
DataLines(m) == {i \in 1..Len(m) : ~m[i].pct}
RecordLines(m) == {i \in DataLines(m) : \E j \in DataLines(m) : j < i}

TotalOf(m, field, idx) ==
    SumOver({i \in RecordLines(m) : m[i].fields[field] = idx},
            [i \in 1..Len(m) |-> IF m[i].pct THEN 0 ELSE m[i].fields[3]])

Image(i) == <<inp.mtx[i].barcode, inp.remapping[inp.mtx[i].feature]>>
ImagePairs == {Image(i) : i \in 1..Len(inp.mtx)}
OutPair(k) == <<res.mtx[k].barcode, res.mtx[k].feature>>

Offset(lists, i) == SumOver(1..(i - 1), [k \in 1..Len(lists) |-> Len(lists[k])])

IsConcatenation(out, lists) ==
    /\ Len(out) = SumOver(1..Len(lists), [k \in 1..Len(lists) |-> Len(lists[k])])
    /\ \A i \in 1..Len(lists) : \A j \in 1..Len(lists[i]) :
         out[Offset(lists, i) + j] = lists[i][j]

\* C5: when mm_merge succeeds, the merged table is the input tables in
\* input order, the merged Barcode List the input Barcode Lists in input
\* order, the Feature List the first input's; a single triple is returned
\* unchanged.
C5_MergeConcatenates ==
    (op = "merge" /\ res.ok)
    => /\ IsConcatenation(res.mtx, inp.matrix_list)
       /\ IsConcatenation(res.barcodes, inp.barcode_list)
       /\ res.features = inp.feature_list[1]
       /\ Len(inp.matrix_list) = 1 =>
            /\ res.mtx = inp.matrix_list[1]
            /\ res.barcodes = inp.barcode_list[1]

\* two samples with records, their Feature Lists in different orders
C5_Witness ==
    /\ op = "merge" /\ res.ok
    /\ Len(inp.matrix_list) = 2
    /\ inp.matrix_list[1] # <<>> /\ inp.matrix_list[2] # <<>>
    /\ inp.feature_list[1] # inp.feature_list[2]
    /\ Len(res.barcodes) = 2

\* C10: from validated triples, every triple remap_features or mm_merge
\* returns, after any sequence of such calls, satisfies the four clauses.
C10_ValidityPreserved ==
    /\ FourClauses(mtx, features, barcodes)
    /\ (op \in {"remap", "merge"} /\ res.ok)
       => /\ FourClauses(res.mtx, res.features, res.barcodes)
          /\ Held = res

\* a merge whose first sample is the result of an earlier remap that summed
\* two records
C10_Witness ==
    /\ op = "merge" /\ res.ok
    /\ Len(inp.matrix_list) = 2
    /\ \E i \in 1..Len(inp.matrix_list[1]) : inp.matrix_list[1][i].count > MaxCount
    /\ inp.matrix_list[2] # <<>>
    /\ FourClauses(mtx, features, barcodes)

====
